---------------------------- MODULE Spec2Model ----------------------------
(***************************************************************************)
(* Request orchestration of the property-maintenance agent:                *)
(*   src/agent/crew.py   DomiCrew.handle_maintenance_request,              *)
(*                       DomiCrew.complete_request                         *)
(*   src/agent/main.py   MaintenanceAgent.process_request, cancel_request  *)
(*   src/agent/tools.py  the tools the crew's agent runs                   *)
(*   src/app/database.py Database.update / fetch_one / fetch_all           *)
(*                                                                         *)
(* Every coroutine is cut at its awaits: the code between two awaits is    *)
(* one action, and coroutines of different calls interleave at the awaits. *)
(* A nullable field is a sequence: <<>> is None, <<v>> is the value v.     *)
(***************************************************************************)
EXTENDS Integers, Sequences, FiniteSets, TLC

\* ------------------------------------------------------------------ bounds
\* attempts of one tool invocation whose outcomes are drawn
MaxOutcomes == 4
\* operations started over a behaviour
MaxCalls == 2
\* the clock (utcnow, in whole seconds) runs from 0 to MaxTime
MaxTime == 1
\* records of the properties table
MaxProperties == 3
\* tool calls the agent makes in one kickoff
MaxToolCalls == 4
\* RequestValidator(max_requests=MaxRequests, time_window=TimeWindow)
MaxRequests == 2
TimeWindow == 2
\* check_rate_limit calls over a behaviour, and the clock they read
MaxChecks == 5
MaxClock == 4

\* coroutines that can be in flight at once
Slots == {"t1", "t2"}
\* request ids: "REQ-<second>", one per second of the clock
Ids == 0..MaxTime
\* MaintenanceRequest objects: at most one is constructed per call
Objs == 1..MaxCalls

\* --------------------------------------------------------------- constants
NULL == <<>>
Some(v) == <<v>>

\* RequestStatus.NEW (NEW is a reserved word of TLA+)
ST_NEW == "new"
PROCESSING == "processing"
SCHEDULED == "scheduled"
COMPLETED == "completed"
FAILED == "failed"
RequestStatus == {ST_NEW, PROCESSING, SCHEDULED, COMPLETED, FAILED}

ISSUE_CATEGORIES == {"plumbing", "electrical", "structural", "appliance", "hvac", "other"}
PRIORITY_LEVELS == {"urgent", "high", "medium", "low"}

\* @retry(tries=3, ...) on ContractorBookingTool._run and EmailNotificationTool._run
RetryTries == 3

\* What the language model may answer for a category and for a priority: a
\* member of the closed set, or free text outside it (tests/test_agent.py
\* expects priority "emergency").
LLMCategories == {"plumbing", "gas"}
LLMPriorities == {"high", "emergency"}
\* The answers tried: both in their sets, the category outside, the priority
\* outside.
LLMAnswers == {<<"plumbing", "high">>, <<"gas", "high">>, <<"plumbing", "emergency">>}

\* the contractors table: rows a booking query can match
Contractors == {"k1"}
ContractorName(k) == "Ace Plumbing"
\* the slot the agent's answer names as scheduled_time
Slot == "slot"
\* the report the completion tool produces
Report == "report"

\* ------------------------------------------------------------------- state
VARIABLES
    store,      \* maintenance_requests table: id -> row
    obj,        \* MaintenanceRequest objects in memory
    active,     \* MaintenanceAgent.active_requests: id -> object (0: no entry)
    now,        \* datetime.utcnow(), in seconds
    calls,      \* operations started so far
    pc,         \* per coroutine: the await it is suspended at
    op,         \* per coroutine: the operation it runs
    robj,       \* per coroutine: the request object it was called with
    rid,        \* per coroutine: the request id it works on
    res,        \* per coroutine: what the crew's tools have produced so far
    err,        \* per coroutine: the message of the exception its handler caught
    seen,       \* per coroutine: the row's status when the call was made (history)
    ret,        \* per coroutine: what the DomiCrew method returned
    outer,      \* per coroutine: what MaintenanceAgent.process_request returned
    last,       \* the last return of cancel_request or get_request_status
    invocation, \* one invocation of a tool, taken by itself (SpecTools)
    priority_override,  \* per coroutine: the argument of process_request
    properties,    \* properties table: id -> record, NULL where there is none
    dbresult,      \* how the last Database.insert call ended
    estimation,    \* what the last CostEstimationTool._run returned
    request_times, \* RequestValidator.request_times
    rate,          \* the last check_rate_limit call and what it returned
    admitted,      \* the times at which check_rate_limit returned True (history)
    kickoff        \* one crew.kickoff(): the tools its agent has run, in order

\* The variables outside the maintenance core.
dbvars == <<properties, dbresult, estimation, request_times, rate, admitted, kickoff>>

vars ==
    <<store, obj, active, now, calls, pc, op, robj, rid, res, err, seen, ret, outer, last,
      invocation, priority_override, properties, dbresult, estimation, request_times,
      rate, admitted, kickoff>>

\* A row of maintenance_requests, as the core reads and writes it.
NewRow ==
    [status |-> ST_NEW, category |-> NULL, priority |-> NULL, estimated_cost |-> NULL,
     scheduled_time |-> NULL, assigned_contractor_id |-> NULL,
     completion_details |-> NULL, updated_at |-> 0]

\* A description and an e-mail address are sequences of characters and of
\* parts. request_data as callers can pass it: complete, with a description of
\* four characters, with an address that has no "@", and with either key left
\* out (NULL).
Description == <<"w", "a", "t", "e", "r", " ", "l", "e", "a", "k">>
ShortDescription == <<"l", "e", "a", "k">>
Email == <<"tenant", "@", "example.com">>
BadEmail == <<"tenant">>
RequestData ==
    {[description |-> Some(Description), contact_email |-> Some(Email)],
     [description |-> Some(ShortDescription), contact_email |-> Some(Email)],
     [description |-> Some(Description), contact_email |-> Some(BadEmail)],
     [description |-> NULL, contact_email |-> Some(Email)],
     [description |-> Some(Description), contact_email |-> NULL]}

\* The validation of the model class MaintenanceRequest: description and
\* contact_email are required fields of type str, with no further constraint.
MaintenanceRequestValid(data) ==
    data.description # NULL /\ data.contact_email # NULL

\* MaintenanceRequest(id=..., **request_data): the defaults of the model class.
NewRequest(id, data) ==
    [alloc |-> TRUE, id |-> id, description |-> data.description[1],
     contact_email |-> data.contact_email[1], status |-> ST_NEW, priority |-> NULL,
     scheduled_time |-> NULL, assigned_contractor |-> NULL]

NoRequest ==
    [alloc |-> FALSE, id |-> 0, description |-> <<>>, contact_email |-> <<>>,
     status |-> ST_NEW, priority |-> NULL,
     scheduled_time |-> NULL, assigned_contractor |-> NULL]

\* No tool is being invoked by itself.
NoCall == [tool |-> "none", outcomes |-> <<>>, attempts |-> 0, state |-> "idle", error |-> ""]

\* No cancel_request or get_request_status call has returned yet.
\* n numbers the call among the operations started.
NoReturn == [op |-> "none", id |-> 0, n |-> 0, success |-> FALSE, error |-> ""]

\* What one crew run has gathered: the classification, the cost estimate, the
\* contractors the booking query matched.
NoResult ==
    [issue_type |-> NULL, priority |-> NULL, estimated_cost |-> NULL,
     contractors |-> <<>>, contractor_name |-> NULL, contractor_id |-> NULL,
     scheduled_time |-> NULL]

\* No request, no coroutine, no return yet.
\* The ids a record of properties can carry.
PropertyIds == 1..MaxProperties

\* No Database.insert call has been made, no estimate asked, no rate check run.
NoInsert == [id |-> 0, cause |-> "none", raised |-> NULL, returned |-> NULL]

NoEstimate == [asked |-> FALSE]

NoCheck == [n |-> 0, at |-> 0, allowed |-> FALSE]

\* No crew has been kicked off.
NoKickoff == [state |-> "idle", used |-> <<>>]

NoRequests ==
    /\ store = [i \in Ids |-> NewRow]
    /\ obj = [o \in Objs |-> NoRequest]
    /\ active = [i \in Ids |-> 0]
    /\ now = 0
    /\ calls = 0
    /\ pc = [s \in Slots |-> "idle"]
    /\ op = [s \in Slots |-> "none"]
    /\ robj = [s \in Slots |-> 0]
    /\ rid = [s \in Slots |-> 0]
    /\ res = [s \in Slots |-> NoResult]
    /\ err = [s \in Slots |-> ""]
    /\ seen = [s \in Slots |-> "none"]
    /\ ret = [s \in Slots |-> "none"]
    /\ outer = [s \in Slots |-> "none"]
    /\ last = NoReturn
    /\ priority_override = [s \in Slots |-> NULL]
    /\ properties = [i \in PropertyIds |-> NULL]
    /\ dbresult = NoInsert
    /\ estimation = NoEstimate
    /\ request_times = <<>>
    /\ rate = NoCheck
    /\ admitted = <<>>
    /\ kickoff = NoKickoff

Init ==
    /\ NoRequests
    /\ invocation = NoCall


\* ------------------------------------------------------------- persistence
\* Database.update(table, record_id, data): the row's fields named in data take
\* data's values in one request to the store; its other fields stay.
DbUpdate(st, id, data) ==
    [st EXCEPT ![id] =
        [f \in DOMAIN st[id] |-> IF f \in DOMAIN data THEN data[f] ELSE st[id][f]]]

\* The three writes of the core.
ProcessingWrite(t) == [status |-> PROCESSING, updated_at |-> t]

FailedWrite(t) == [status |-> FAILED, updated_at |-> t]

ScheduledWrite(result, t) ==
    [status |-> SCHEDULED,
     priority |-> result.priority,
     category |-> result.issue_type,
     estimated_cost |-> result.estimated_cost,
     scheduled_time |-> result.scheduled_time,
     assigned_contractor_id |-> result.contractor_id,
     updated_at |-> t]

CompletedWrite(report, t) ==
    [status |-> COMPLETED, completion_details |-> Some(report), updated_at |-> t]

\* ------------------------------------------------------------------- tools
\* What llm.predict can give back: text that is no JSON (or an exception of the
\* client), or a JSON object in which any of the fields may be missing.
LLMResponses ==
    {[json |-> FALSE, category |-> NULL, priority |-> NULL, estimated_hours |-> NULL]}
    \cup
    {[json |-> TRUE, category |-> c, priority |-> p, estimated_hours |-> h] :
        c \in {NULL}, p \in {NULL, Some("high")}, h \in {NULL, Some(2)}}
    \cup
    {[json |-> TRUE, category |-> Some(a[1]), priority |-> Some(a[2]), estimated_hours |-> h] :
        a \in LLMAnswers, h \in {NULL, Some(2)}}

\* IssueClassificationTool._run: json.loads, then the check that the required
\* fields are present; anything else raises MaintenanceRequestError.
IssueClassificationRun(response) ==
    IF /\ response.json
       /\ response.category # NULL
       /\ response.priority # NULL
       /\ response.estimated_hours # NULL
    THEN [ok |-> TRUE, category |-> response.category, priority |-> response.priority]
    ELSE [ok |-> FALSE, category |-> NULL, priority |-> NULL]

\* CostEstimationTool.BASE_COSTS, the 'medium' column.
BASE_COSTS_MEDIUM ==
    [c \in ISSUE_CATEGORIES |->
        CASE c = "plumbing" -> 500
          [] c = "electrical" -> 600
          [] c = "structural" -> 2000
          [] c = "appliance" -> 400
          [] c = "hvac" -> 800
          [] OTHER -> 500]

\* CostEstimationTool._run on a description without complexity keywords and a
\* standard property (both factors 1.0): the typical estimate, the 'other' row
\* for a category outside the table. A description that is no text makes
\* _analyze_complexity raise, and _run raises MaintenanceRequestError.
CostEstimationRun(category, descriptionIsText) ==
    IF descriptionIsText
    THEN [ok |-> TRUE,
          typical |-> Some(BASE_COSTS_MEDIUM[IF category \in ISSUE_CATEGORIES
                                             THEN category ELSE "other"])]
    ELSE [ok |-> FALSE, typical |-> NULL]

\* What db.fetch_all("contractors", ...) can match: no row, or rows.
BookingMatches == {<<>>} \cup {<<k>> : k \in Contractors}

\* rows[:n]
Take(rows, n) == SubSeq(rows, 1, IF Len(rows) < n THEN Len(rows) ELSE n)

\* ContractorBookingTool._run once the query returned: no row is
\* {"success": False}, rows are {"success": True, "contractors": rows[:5]}.
ContractorBookingRun(matched) ==
    [success |-> matched # <<>>, contractors |-> Take(matched, 5)]

\* What a run of ContractorBookingTool._run leaves in maintenance_requests:
\* its one database call is db.fetch_all("contractors", ...), a select.
ContractorBookingStoreAll(st) ==
    [id \in DOMAIN st |-> [st[id] EXCEPT !.status = SCHEDULED]]

ContractorBookingStore(st) == st

\* What the attempts of one retried call do, attempt by attempt: TRUE returns,
\* FALSE raises.
AttemptOutcomes == [1..MaxOutcomes -> BOOLEAN]

\* retry(tries=3, delay=1, backoff=2): the loop of the decorator from attempt n
\* on. An attempt that returns ends it; one that raises is repeated while tries
\* are left, and the last one's exception is raised.
\* A retry loop with no limit of its own: it goes on while outcomes are left.
RECURSIVE RetryWhileOutcomes(_, _)
RetryWhileOutcomes(outcomes, n) ==
    IF outcomes[n] THEN [raised |-> FALSE, attempts |-> n]
    ELSE IF n >= MaxOutcomes THEN [raised |-> TRUE, attempts |-> n]
    ELSE RetryWhileOutcomes(outcomes, n + 1)

RECURSIVE RetryFrom(_, _)
RetryFrom(outcomes, n) ==
    IF outcomes[n] THEN [raised |-> FALSE, attempts |-> n]
    ELSE IF n >= RetryTries THEN [raised |-> TRUE, attempts |-> n]
    ELSE RetryFrom(outcomes, n + 1)

Retry(outcomes) == RetryFrom(outcomes, 1)

\* Every way a retried call can end.
RetryResults == {Retry(outcomes) : outcomes \in AttemptOutcomes}

\* The answer of the crew's agent (crew.kickoff()): the JSON the task asks for,
\* filled from what its tools returned. The task does not ask for
\* contractor_id, which the answer may or may not carry.
AgentAnswer(r, withId) ==
    [issue_type |-> r.issue_type,
     priority |-> r.priority,
     estimated_cost |-> r.estimated_cost,
     contractors |-> r.contractors,
     contractor_name |-> IF r.contractors = <<>> THEN NULL
                         ELSE Some(ContractorName(r.contractors[1])),
     contractor_id |-> IF r.contractors = <<>> \/ ~withId THEN NULL
                       ELSE Some(r.contractors[1]),
     scheduled_time |-> IF r.contractors = <<>> THEN NULL ELSE Some(Slot)]


\* ------------------------------------------------- handle_maintenance_request
\* A call runs in the first coroutine frame that is not in flight.
Free(s) ==
    /\ pc[s] \in {"idle", "done"}
    /\ \A t \in Slots : pc[t] \in {"idle", "done"} => s = "t1" \/ t # "t1"

\* The first object not yet constructed.
FreshObj == CHOOSE o \in Objs : ~obj[o].alloc /\ \A p \in Objs : p < o => obj[p].alloc

\* A coroutine starts on a fresh frame.
Enter(s, operation, o, id, at) ==
    /\ calls' = calls + 1
    /\ pc' = [pc EXCEPT ![s] = at]
    /\ op' = [op EXCEPT ![s] = operation]
    /\ robj' = [robj EXCEPT ![s] = o]
    /\ rid' = [rid EXCEPT ![s] = id]
    /\ res' = [res EXCEPT ![s] = NoResult]
    /\ err' = [err EXCEPT ![s] = ""]
    /\ seen' = [seen EXCEPT ![s] = store[id].status]
    /\ ret' = [ret EXCEPT ![s] = "none"]
    /\ outer' = [outer EXCEPT ![s] = "none"]

\* crew.py 89-96: no check of request.status; the object is set to PROCESSING,
\* then the coroutine awaits db.update. db.transaction() hands out a txn that
\* no later call uses: every db.update is a request of its own to the store.
HandleEntry(request) == [request EXCEPT !.status = PROCESSING]

\* DomiCrew.handle_maintenance_request(request), called on an object that
\* exists (streamlit_app.py 249, tests/test_agent.py).
HandleCall(s, o) ==
    /\ Free(s)
    /\ calls < MaxCalls
    /\ obj[o].alloc
    /\ obj' = [obj EXCEPT ![o] = HandleEntry(@)]
    /\ Enter(s, "handle", o, obj[o].id, "h_update_processing")
    /\ priority_override' = [priority_override EXCEPT ![s] = NULL]
    /\ UNCHANGED dbvars
    /\ UNCHANGED <<store, active, now, last, invocation>>

\* MaintenanceAgent.process_request with data the model class rejects:
\* main.py 55-58 raises ValidationError, main.py 77-83 returns the failure.
ProcessRequestInvalid(s, data, override) ==
    /\ Free(s)
    /\ calls < MaxCalls
    /\ ~MaintenanceRequestValid(data)
    /\ calls' = calls + 1
    /\ pc' = [pc EXCEPT ![s] = "done"]
    /\ op' = [op EXCEPT ![s] = "process"]
    /\ robj' = [robj EXCEPT ![s] = 0]
    /\ rid' = [rid EXCEPT ![s] = now]
    /\ res' = [res EXCEPT ![s] = NoResult]
    /\ err' = [err EXCEPT ![s] = "Invalid request data"]
    /\ seen' = [seen EXCEPT ![s] = "none"]
    /\ ret' = [ret EXCEPT ![s] = "none"]
    /\ outer' = [outer EXCEPT ![s] = "failure"]
    /\ priority_override' = [priority_override EXCEPT ![s] = override]
    /\ UNCHANGED dbvars
    /\ UNCHANGED <<store, obj, active, now, last, invocation>>

\* MaintenanceAgent.process_request, main.py 53-64: the id is the clock's
\* second, the object is stored under it, and handle_maintenance_request runs
\* up to its first await.
ProcessRequest(s, data, override) ==
    /\ Free(s)
    /\ calls < MaxCalls
    /\ MaintenanceRequestValid(data)
    /\ \E o \in Objs : ~obj[o].alloc
    /\ LET o == FreshObj IN
        /\ obj' = [obj EXCEPT ![o] = HandleEntry(NewRequest(now, data))]
        /\ active' = [active EXCEPT ![now] = o]
        /\ Enter(s, "process", o, now, "h_update_processing")
    /\ priority_override' = [priority_override EXCEPT ![s] = override]
    /\ UNCHANGED dbvars
    /\ UNCHANGED <<store, now, last, invocation>>

\* The method returns envelope r ("success" or "failure"), or lets an
\* exception out ("raised"). Under process_request, main.py 66-75 then stores
\* the object again and returns success; main.py 93-99 turns an exception into
\* a failure envelope.
Return(s, r) ==
    /\ pc' = [pc EXCEPT ![s] = "done"]
    /\ ret' = [ret EXCEPT ![s] = r]
    /\ res' = [res EXCEPT ![s] = NoResult]
    /\ seen' = [seen EXCEPT ![s] = "none"]
    /\ IF op[s] = "process"
       THEN /\ outer' = [outer EXCEPT ![s] = IF r = "raised" THEN "failure" ELSE "success"]
            /\ active' = IF r = "raised" THEN active
                         ELSE [active EXCEPT ![rid[s]] = robj[s]]
       ELSE UNCHANGED <<outer, active>>

\* The coroutine goes on to its next await.
Goto(s, at) ==
    /\ pc' = [pc EXCEPT ![s] = at]
    /\ UNCHANGED <<err, seen, ret, outer, active>>

\* crew.py 176-179: an exception inside the try block lands in the handler,
\* which sets the object to FAILED and awaits db.update.
HandleExcept(s, e) ==
    /\ obj' = [obj EXCEPT ![robj[s]].status = FAILED]
    /\ res' = [res EXCEPT ![s] = NoResult]
    /\ err' = [err EXCEPT ![s] = e]
    /\ pc' = [pc EXCEPT ![s] = "h_update_failed"]
    /\ UNCHANGED <<seen, ret, outer, active>>

\* The messages of the exceptions that reach the handlers.
ErrUpdate == "Failed to update record in maintenance_requests"
ErrFetch == "Failed to fetch record from maintenance_requests"
ErrClassify == "Failed to classify issue"
ErrCost == "Failed to estimate costs"
ErrBooking == "Failed to book contractor"
ErrNotify == "Failed to send notification"
ErrReport == "Failed to generate completion report"

\* crew.py 96-99: the write of PROCESSING returns or raises DatabaseError.
UpdateProcessing(s) ==
    /\ pc[s] = "h_update_processing"
    /\ \E dbOk \in BOOLEAN :
        IF dbOk
        THEN /\ store' = DbUpdate(store, rid[s], ProcessingWrite(now))
             /\ Goto(s, "h_classify")
             /\ UNCHANGED <<obj, res>>
        ELSE /\ HandleExcept(s, ErrUpdate)
             /\ UNCHANGED store
    /\ UNCHANGED <<now, calls, op, robj, rid, last, invocation, priority_override, dbvars>>

\* crew.kickoff(), step 1: the agent runs issue_classification.
Classify(s) ==
    /\ pc[s] = "h_classify"
    /\ \E response \in LLMResponses :
        LET c == IssueClassificationRun(response) IN
        IF c.ok
        THEN /\ res' = [res EXCEPT ![s].issue_type = c.category,
                                   ![s].priority = c.priority]
             /\ Goto(s, "h_cost")
             /\ UNCHANGED obj
        ELSE HandleExcept(s, ErrClassify)
    /\ UNCHANGED <<store, now, calls, op, robj, rid, last, invocation, priority_override, dbvars>>

\* crew.kickoff(), step 3 of the task: cost_estimation on the category.
EstimateCost(s) ==
    /\ pc[s] = "h_cost"
    /\ \E descriptionIsText \in BOOLEAN :
        LET e == CostEstimationRun(res[s].issue_type[1], descriptionIsText) IN
        IF e.ok
        THEN /\ res' = [res EXCEPT ![s].estimated_cost = e.typical]
             /\ Goto(s, "h_book")
             /\ UNCHANGED obj
        ELSE HandleExcept(s, ErrCost)
    /\ UNCHANGED <<store, now, calls, op, robj, rid, last, invocation, priority_override, dbvars>>

\* crew.kickoff(), step 4: contractor_booking, a retried _run: the query fails
\* on every attempt and the last MaintenanceRequestError is raised, or an
\* attempt returns its rows.
BookContractor(s) ==
    /\ pc[s] = "h_book"
    /\ \E call \in RetryResults, matched \in BookingMatches :
        IF call.raised
        THEN HandleExcept(s, ErrBooking)
        ELSE /\ res' = [res EXCEPT ![s].contractors =
                                        ContractorBookingRun(matched).contractors]
             /\ Goto(s, "h_notify")
             /\ UNCHANGED obj
    /\ store' = ContractorBookingStore(store)
    /\ UNCHANGED <<now, calls, op, robj, rid, last, invocation, priority_override, dbvars>>

\* crew.py 147-150, once kickoff has returned result: the object takes the
\* status SCHEDULED and the result's fields, then the coroutine awaits db.update.
ApplyResult(request, result) ==
    [request EXCEPT !.status = SCHEDULED,
                    !.priority = result.priority,
                    !.scheduled_time = result.scheduled_time,
                    !.assigned_contractor = result.contractor_name]

\* crew.kickoff(), step 5: email_notification, a retried _run: every attempt
\* fails and the last MaintenanceRequestError is raised, or the mail is sent
\* and kickoff ends with the agent's answer.
Notify(s) ==
    /\ pc[s] = "h_notify"
    /\ \E call \in RetryResults, withId \in BOOLEAN :
        LET result == AgentAnswer(res[s], withId) IN
        IF call.raised
        THEN HandleExcept(s, ErrNotify)
        ELSE /\ res' = [res EXCEPT ![s] = result]
             /\ obj' = [obj EXCEPT ![robj[s]] = ApplyResult(@, result)]
             /\ Goto(s, "h_update_scheduled")
    /\ UNCHANGED <<store, now, calls, op, robj, rid, last, invocation, priority_override, dbvars>>

\* crew.py 152-174: the one write of SCHEDULED and the derived fields; then
\* the success envelope. A DatabaseError lands in the handler.
UpdateScheduled(s) ==
    /\ pc[s] = "h_update_scheduled"
    /\ \E dbOk \in BOOLEAN :
        IF dbOk
        THEN /\ store' = DbUpdate(store, rid[s], ScheduledWrite(res[s], now))
             /\ Return(s, "success")
             /\ UNCHANGED <<obj, err>>
        ELSE /\ HandleExcept(s, ErrUpdate)
             /\ UNCHANGED store
    /\ UNCHANGED <<now, calls, op, robj, rid, last, invocation, priority_override, dbvars>>

\* crew.py 180-188: the write of FAILED, then the failure envelope. This
\* db.update runs inside the handler: its DatabaseError leaves the method.
UpdateFailed(s) ==
    /\ pc[s] = "h_update_failed"
    /\ \E dbOk \in BOOLEAN :
        IF dbOk
        THEN /\ store' = DbUpdate(store, rid[s], FailedWrite(now))
             /\ Return(s, "failure")
             /\ UNCHANGED err
        ELSE /\ Return(s, "raised")
             /\ err' = [err EXCEPT ![s] = ErrUpdate]
             /\ UNCHANGED store
    /\ UNCHANGED <<obj, now, calls, op, robj, rid, last, invocation, priority_override, dbvars>>

\* ------------------------------------------------------------ complete_request
\* The completion-report tool: a report from the row's description, category
\* and priority, or a failure.
CompletionReportRun(row, works) ==
    [success |-> works, completion_report |-> IF works THEN Report ELSE ""]

\* DomiCrew.complete_request(request_id): it awaits db.fetch_one.
CompleteCall(s, id) ==
    /\ Free(s)
    /\ calls < MaxCalls
    /\ Enter(s, "complete", 0, id, "c_fetch")
    /\ priority_override' = [priority_override EXCEPT ![s] = NULL]
    /\ UNCHANGED dbvars
    /\ UNCHANGED <<store, obj, active, now, last, invocation>>

\* crew.py 224-225: the handler of complete_request awaits db.update.
CompleteExcept(s, e) ==
    /\ err' = [err EXCEPT ![s] = e]
    /\ pc' = [pc EXCEPT ![s] = "c_update_failed"]
    /\ UNCHANGED <<seen, ret, outer, active, res>>

\* crew.py 197-222: fetch_one returns the row or raises DatabaseError; no
\* check of the row's status; the tool runs at once; a report goes on to the
\* write of COMPLETED, a failure raises into the handler.
FetchAndReport(s) ==
    /\ pc[s] = "c_fetch"
    /\ \E dbOk \in BOOLEAN, works \in BOOLEAN :
        LET report == CompletionReportRun(store[rid[s]], works) IN
        IF ~dbOk THEN CompleteExcept(s, ErrFetch)
        ELSE IF ~report.success THEN CompleteExcept(s, ErrReport)
        ELSE /\ Goto(s, "c_update_completed")
             /\ UNCHANGED res
    /\ UNCHANGED <<store, obj, now, calls, op, robj, rid, last, invocation, priority_override, dbvars>>

\* crew.py 210-220: the one write of COMPLETED with the report.
UpdateCompleted(s) ==
    /\ pc[s] = "c_update_completed"
    /\ \E dbOk \in BOOLEAN :
        IF dbOk
        THEN /\ store' = DbUpdate(store, rid[s], CompletedWrite(Report, now))
             /\ Return(s, "success")
             /\ UNCHANGED err
        ELSE /\ CompleteExcept(s, ErrUpdate)
             /\ UNCHANGED store
    /\ UNCHANGED <<obj, now, calls, op, robj, rid, last, invocation, priority_override, dbvars>>

\* crew.py 226-236: the handler writes FAILED; its DatabaseError leaves the
\* method.
CompleteUpdateFailed(s) ==
    /\ pc[s] = "c_update_failed"
    /\ \E dbOk \in BOOLEAN :
        IF dbOk
        THEN /\ store' = DbUpdate(store, rid[s], FailedWrite(now))
             /\ Return(s, "failure")
             /\ UNCHANGED err
        ELSE /\ Return(s, "raised")
             /\ err' = [err EXCEPT ![s] = ErrUpdate]
             /\ UNCHANGED store
    /\ UNCHANGED <<obj, now, calls, op, robj, rid, last, invocation, priority_override, dbvars>>

\* -------------------------------------------------------------- cancel_request
\* The fields of the model class MaintenanceRequest (crew.py 28-41). Reading
\* or assigning any other attribute of a request object raises.
MaintenanceRequestFields ==
    {"id", "property_id", "description", "contact_email", "contact_phone",
     "photo_url", "status", "priority", "created_at", "scheduled_time",
     "assigned_contractor", "completion_details"}

ErrNotFound == "Request not found"
ErrCannotCancel == "Cannot cancel request in current status"
ErrCancel == "Failed to cancel request"
ErrStatus == "Failed to get status"

\* A cancel_request that refuses COMPLETED alone.
CancelRefusedCompletedOnly(status) == status = COMPLETED

\* main.py 160-165: the statuses cancel_request refuses.
CancelRefused(status) == status \in {SCHEDULED, COMPLETED}

\* main.py 167-184, on a request that is not refused: status is assigned, then
\* updated_at; an assignment to an attribute that is no field raises, and the
\* handler returns the failure envelope with the status already assigned.
CancelReturn(id) ==
    IF "updated_at" \in MaintenanceRequestFields
    THEN [op |-> "cancel", id |-> id, n |-> calls + 1, success |-> TRUE, error |-> ""]
    ELSE [op |-> "cancel", id |-> id, n |-> calls + 1, success |-> FALSE, error |-> ErrCancel]

\* MaintenanceAgent.cancel_request(request_id), main.py 152-184: no await, one
\* step. It works on the object of active_requests alone: the store is never
\* written.
CancelRequest(id) ==
    /\ calls < MaxCalls
    /\ calls' = calls + 1
    /\ IF active[id] = 0
       THEN /\ last' = [op |-> "cancel", id |-> id, n |-> calls + 1, success |-> FALSE, error |-> ErrNotFound]
            /\ UNCHANGED obj
       ELSE IF CancelRefused(obj[active[id]].status)
       THEN /\ last' = [op |-> "cancel", id |-> id, n |-> calls + 1, success |-> FALSE, error |-> ErrCannotCancel]
            /\ UNCHANGED obj
       ELSE /\ obj' = [obj EXCEPT ![active[id]].status = FAILED]
            /\ last' = CancelReturn(id)
    /\ UNCHANGED <<store, active, now, pc, op, robj, rid, res, err, seen, ret, outer, invocation, priority_override, dbvars>>

\* ---------------------------------------------------------- get_request_status
\* main.py 122-132: the envelope reads request.updated_at and
\* request.estimated_cost; a read of an attribute that is no field raises, and
\* the handler returns the failure envelope.
StatusReturn(id) ==
    IF {"updated_at", "estimated_cost"} \subseteq MaintenanceRequestFields
    THEN [op |-> "status", id |-> id, n |-> calls + 1, success |-> TRUE, error |-> ""]
    ELSE [op |-> "status", id |-> id, n |-> calls + 1, success |-> FALSE, error |-> ErrStatus]

\* A get_request_status that would wait for the runs in flight to end.
GetRequestStatusWhenIdle(id) ==
    /\ calls < MaxCalls
    /\ \A s \in Slots : pc[s] \in {"idle", "done"}
    /\ calls' = calls + 1
    /\ last' = IF active[id] = 0
               THEN [op |-> "status", id |-> id, n |-> calls + 1, success |-> FALSE, error |-> ErrNotFound]
               ELSE StatusReturn(id)
    /\ UNCHANGED <<store, obj, active, now, pc, op, robj, rid, res, err, seen, ret, outer, invocation, priority_override, dbvars>>

\* MaintenanceAgent.get_request_status(request_id), main.py 111-140. Its one
\* await, crew.get_agent_status(), reads no request and always returns, so the
\* call is one step. Nothing is written.
GetRequestStatus(id) ==
    /\ calls < MaxCalls
    /\ calls' = calls + 1
    /\ last' = IF active[id] = 0
               THEN [op |-> "status", id |-> id, n |-> calls + 1, success |-> FALSE, error |-> ErrNotFound]
               ELSE StatusReturn(id)
    /\ UNCHANGED <<store, obj, active, now, pc, op, robj, rid, res, err, seen, ret, outer, invocation, priority_override, dbvars>>

\* ----------------------------------------------------------------- the clock
Tick ==
    /\ now < MaxTime
    /\ now' = now + 1
    /\ UNCHANGED <<store, obj, active, calls, pc, op, robj, rid, res, err, seen, ret, outer, last, invocation, priority_override, dbvars>>

Next ==
    \/ \E s \in Slots, data \in RequestData : ProcessRequest(s, data, NULL)
    \/ \E s \in Slots, data \in RequestData : ProcessRequestInvalid(s, data, NULL)
    \/ \E s \in Slots, o \in Objs : HandleCall(s, o)
    \/ \E s \in Slots : UpdateProcessing(s)
    \/ \E s \in Slots : Classify(s)
    \/ \E s \in Slots : EstimateCost(s)
    \/ \E s \in Slots : BookContractor(s)
    \/ \E s \in Slots : Notify(s)
    \/ \E s \in Slots : UpdateScheduled(s)
    \/ \E s \in Slots : UpdateFailed(s)
    \/ \E s \in Slots, id \in Ids : CompleteCall(s, id)
    \/ \E s \in Slots : FetchAndReport(s)
    \/ \E s \in Slots : UpdateCompleted(s)
    \/ \E s \in Slots : CompleteUpdateFailed(s)
    \/ \E id \in Ids : CancelRequest(id)
    \/ \E id \in Ids : GetRequestStatus(id)
    \/ Tick

Spec == Init /\ [][Next]_vars


\* ------------------------------------------------- one tool invocation alone
\* The registry MAINTENANCE_TOOLS of tools.py.
MAINTENANCE_TOOLS ==
    {"issue_classification", "contractor_booking", "email_notification",
     "property_lookup", "cost_estimation"}

\* The tools whose _run carries @retry(tries=3, delay=1, backoff=2).
RetriedTools == {"contractor_booking", "email_notification"}

ErrLookup == "Failed to retrieve property information"

\* The MaintenanceRequestError each _run raises from its except block.
ToolError(tool) ==
    CASE tool = "issue_classification" -> ErrClassify
      [] tool = "contractor_booking" -> ErrBooking
      [] tool = "email_notification" -> ErrNotify
      [] tool = "property_lookup" -> ErrLookup
      [] tool = "cost_estimation" -> ErrCost

\* tool._run, whose attempts would end as outcomes says: under the decorator
\* the retry loop runs; without it the first attempt decides.
ToolRun(tool, outcomes) ==
    IF tool \in RetriedTools THEN Retry(outcomes)
    ELSE [raised |-> ~outcomes[1], attempts |-> 1]

InitTools ==
    /\ NoRequests
    /\ invocation \in {[tool |-> tool, outcomes |-> outcomes, attempts |-> 0,
                        state |-> "called", error |-> ""] :
                            tool \in MAINTENANCE_TOOLS, outcomes \in AttemptOutcomes}

\* The invocation runs to its end: it returns, or raises its tool's error.
ToolCall ==
    /\ invocation.state = "called"
    /\ LET r == ToolRun(invocation.tool, invocation.outcomes) IN
        invocation' = [invocation EXCEPT
                          !.attempts = r.attempts,
                          !.state = IF r.raised THEN "raised" ELSE "returned",
                          !.error = IF r.raised THEN ToolError(invocation.tool) ELSE ""]
    /\ UNCHANGED <<store, obj, active, now, calls, pc, op, robj, rid, res, err, seen,
                   ret, outer, last, priority_override, dbvars>>

NextTools == ToolCall

SpecTools == InitTools /\ [][NextTools]_vars


\* --------------------------------------- process_request with an override
\* The priority a caller passes as priority_override: a member of
\* PRIORITY_LEVELS that differs from what classification answers.
PriorityOverride == "low"

\* Every process_request call carries the override; the runs are those of Spec.
NextOverride ==
    \/ \E s \in Slots, data \in RequestData :
            ProcessRequest(s, data, Some(PriorityOverride))
    \/ \E s \in Slots, data \in RequestData :
            ProcessRequestInvalid(s, data, Some(PriorityOverride))
    \/ \E s \in Slots : UpdateProcessing(s)
    \/ \E s \in Slots : Classify(s)
    \/ \E s \in Slots : EstimateCost(s)
    \/ \E s \in Slots : BookContractor(s)
    \/ \E s \in Slots : Notify(s)
    \/ \E s \in Slots : UpdateScheduled(s)
    \/ \E s \in Slots : UpdateFailed(s)
    \/ Tick

SpecOverride == Init /\ [][NextOverride]_vars


\* ------------------------------------------------------- Database.insert
\* Records of the properties table.
PropertyNames == {"Test Property", "Duplicate Property"}

PropertyData == [id : PropertyIds, name : PropertyNames]

\* supabase.table(t).insert(data).execute(): the service cannot be reached, or
\* the id is the primary key of a row and the insert is refused, or the row
\* is stored.
SupabaseInsert(rows, data, reachable) ==
    IF ~reachable THEN [cause |-> "transport", rows |-> rows]
    ELSE IF rows[data.id] # NULL THEN [cause |-> "constraint", rows |-> rows]
    ELSE [cause |-> "inserted", rows |-> [rows EXCEPT ![data.id] = Some(data)]]

DatabaseError(message) == [type |-> "DatabaseError", message |-> message]

ErrInsert == "Failed to insert record into properties"

\* What Database.insert raises when the execute() raised for cause: its except
\* block catches every Exception and raises the same DatabaseError.
InsertRaises(cause) == DatabaseError(ErrInsert)

\* await db.insert("properties", data)
Insert(data, reachable) ==
    /\ LET r == SupabaseInsert(properties, data, reachable) IN
        /\ properties' = r.rows
        /\ dbresult' = [id |-> data.id,
                        cause |-> r.cause,
                        raised |-> IF r.cause = "inserted" THEN NULL
                                   ELSE Some(InsertRaises(r.cause)),
                        returned |-> IF r.cause = "inserted" THEN Some(data) ELSE NULL]
    /\ UNCHANGED <<store, obj, active, now, calls, pc, op, robj, rid, res, err, seen,
                   ret, outer, last, invocation, priority_override, estimation,
                   request_times, rate, admitted, kickoff>>

NextInsert == \E data \in PropertyData, reachable \in BOOLEAN : Insert(data, reachable)

SpecInsert == Init /\ [][NextInsert]_vars


\* ------------------------------------------------- the agent inside kickoff
\* The tools _initialize_agent hands to the agent.
AgentTools ==
    {"issue_classification", "contractor_booking", "email_notification", "cost_estimation"}

\* crew.py 101-144: the crew has one task, whose description lists the
\* required steps as text, and one agent that holds every tool.
KickoffStart ==
    /\ kickoff.state = "idle"
    /\ kickoff' = [state |-> "running", used |-> <<>>]
    /\ UNCHANGED <<store, obj, active, now, calls, pc, op, robj, rid, res, err, seen,
                   ret, outer, last, invocation, priority_override, properties,
                   dbresult, estimation, request_times, rate, admitted>>

\* The agent's language model names the tool to run next; the tool runs to
\* its end before the model is asked again.
AgentUsesTool(tool) ==
    /\ kickoff.state = "running"
    /\ Len(kickoff.used) < MaxToolCalls
    /\ kickoff' = [kickoff EXCEPT !.used = Append(@, tool)]
    /\ UNCHANGED <<store, obj, active, now, calls, pc, op, robj, rid, res, err, seen,
                   ret, outer, last, invocation, priority_override, properties,
                   dbresult, estimation, request_times, rate, admitted>>

\* The model gives its final answer and kickoff returns.
AgentAnswers ==
    /\ kickoff.state = "running"
    /\ kickoff' = [kickoff EXCEPT !.state = "returned"]
    /\ UNCHANGED <<store, obj, active, now, calls, pc, op, robj, rid, res, err, seen,
                   ret, outer, last, invocation, priority_override, properties,
                   dbresult, estimation, request_times, rate, admitted>>

NextAgent ==
    \/ KickoffStart
    \/ \E tool \in AgentTools : AgentUsesTool(tool)
    \/ AgentAnswers

SpecAgent == Init /\ [][NextAgent]_vars


\* ---------------------------------------------- CostEstimationTool._run
\* CostEstimationTool.BASE_COSTS, in dollars.
BASE_COSTS ==
    [c \in ISSUE_CATEGORIES |->
        CASE c = "plumbing" -> [low |-> 150, medium |-> 500, high |-> 1500]
          [] c = "electrical" -> [low |-> 200, medium |-> 600, high |-> 2000]
          [] c = "structural" -> [low |-> 500, medium |-> 2000, high |-> 5000]
          [] c = "appliance" -> [low |-> 100, medium |-> 400, high |-> 1200]
          [] c = "hvac" -> [low |-> 250, medium |-> 800, high |-> 3000]
          [] OTHER -> [low |-> 200, medium |-> 500, high |-> 1500]]

\* complexity_indicators in the order of the dict, the factors in tenths.
ComplexityIndicators ==
    << [word |-> "emergency", tenths |-> 15], [word |-> "urgent", tenths |-> 13],
       [word |-> "multiple", tenths |-> 14], [word |-> "extensive", tenths |-> 14],
       [word |-> "simple", tenths |-> 8], [word |-> "minor", tenths |-> 7],
       [word |-> "quick", tenths |-> 6] >>

IndicatorWords == {ComplexityIndicators[i].word : i \in DOMAIN ComplexityIndicators}

\* A multiplier m is kept as the integer m * ComplexityScale: a product of
\* seven factors in tenths is exact in units of 10^-7.
ComplexityScale == 10000000

\* The loop of _analyze_complexity over the indicators from the i-th on: a
\* factor is multiplied in when its word occurs in the lowered description.
\* words is the set of indicator words that occur in it.
RECURSIVE MultiplyFrom(_, _)
MultiplyFrom(i, words) ==
    IF i > Len(ComplexityIndicators) THEN 1
    ELSE (IF ComplexityIndicators[i].word \in words
          THEN ComplexityIndicators[i].tenths ELSE 10) * MultiplyFrom(i + 1, words)

\* A multiplier returned as it was computed.
Uncapped(m) == m

\* max(0.5, min(multiplier, 2.0))
Cap(m) ==
    LET lo == ComplexityScale \div 2
        hi == 2 * ComplexityScale
        least == IF m < hi THEN m ELSE hi
    IN IF lo > least THEN lo ELSE least

AnalyzeComplexity(words) == Cap(MultiplyFrom(1, words))

\* 1.5 if property_type == 'luxury' else 1.0, in tenths.
PropertyFactor(property_type) == IF property_type = "luxury" THEN 15 ELSE 10

\* round(base * complexity * property_factor, 2), in cents. The product is
\* base * tenths * m * 10^-6 cents; it is taken in two parts so that no
\* intermediate value leaves 32 bits, and rounded half to even.
RoundedCents(base, m, tenths) ==
    LET q == m \div 10000
        r == m % 10000
        a == base * tenths * q
        b == base * tenths * r
        a2 == a + (b \div 10000)
        b0 == b % 10000
        whole == a2 \div 100
        rest == (a2 % 100) * 10000 + b0
    IN IF rest > 500000 \/ (rest = 500000 /\ whole % 2 = 1) THEN whole + 1 ELSE whole

\* What _run returns: the complexity and the three estimates.
CostEstimate(category, words, property_type) ==
    LET base_costs == BASE_COSTS[IF category \in ISSUE_CATEGORIES THEN category ELSE "other"]
        complexity_factor == AnalyzeComplexity(words)
        property_factor == PropertyFactor(property_type)
    IN [asked |-> TRUE,
        category |-> category,
        words |-> words,
        property_type |-> property_type,
        complexity |-> complexity_factor,
        low_end |-> RoundedCents(base_costs.low, complexity_factor, property_factor),
        typical |-> RoundedCents(base_costs.medium, complexity_factor, property_factor),
        high_end |-> RoundedCents(base_costs.high, complexity_factor, property_factor)]

\* The categories a caller passes: those of the table and one outside it.
EstimateCategories == ISSUE_CATEGORIES \cup {"roofing"}

PropertyTypes == {"standard", "luxury"}

\* cost_estimation._run(category, description, property_type)
CostEstimationCall(category, words, property_type) ==
    /\ estimation' = CostEstimate(category, words, property_type)
    /\ UNCHANGED <<store, obj, active, now, calls, pc, op, robj, rid, res, err, seen,
                   ret, outer, last, invocation, priority_override, properties,
                   dbresult, request_times, rate, admitted, kickoff>>

NextEstimate ==
    \E category \in EstimateCategories, words \in SUBSET IndicatorWords,
       property_type \in PropertyTypes :
        CostEstimationCall(category, words, property_type)

SpecEstimate == Init /\ [][NextEstimate]_vars


\* --------------------------------------- RequestValidator.check_rate_limit
\* The list comprehension of check_rate_limit: the times less than
\* time_window before t, in their order.
Recent(times, t) == SelectSeq(times, LAMBDA u : t - u < TimeWindow)

\* A limit that lets one request more through.
LimitExceededAbove(times) == Len(times) > MaxRequests

\* len(self.request_times) >= self.max_requests
LimitExceeded(times) == Len(times) >= MaxRequests

\* validator.check_rate_limit(): old times are dropped; at the limit the call
\* returns False, else it appends the time and returns True.
CheckRateLimit ==
    /\ rate.n < MaxChecks
    /\ LET kept == Recent(request_times, now) IN
        IF LimitExceeded(kept)
        THEN /\ request_times' = kept
             /\ rate' = [n |-> rate.n + 1, at |-> now, allowed |-> FALSE]
             /\ UNCHANGED admitted
        ELSE /\ request_times' = Append(kept, now)
             /\ rate' = [n |-> rate.n + 1, at |-> now, allowed |-> TRUE]
             /\ admitted' = Append(admitted, now)
    /\ UNCHANGED <<store, obj, active, now, calls, pc, op, robj, rid, res, err, seen,
                   ret, outer, last, invocation, priority_override, properties,
                   dbresult, estimation, kickoff>>

\* datetime.now() moves on between two calls.
ClockAdvance ==
    /\ now < MaxClock
    /\ now' = now + 1
    /\ UNCHANGED <<store, obj, active, calls, pc, op, robj, rid, res, err, seen,
                   ret, outer, last, invocation, priority_override, dbvars>>

NextLimit == CheckRateLimit \/ ClockAdvance

SpecLimit == Init /\ [][NextLimit]_vars


\* ================================================================== claims
HandlePcs ==
    {"h_update_processing", "h_classify", "h_cost", "h_book", "h_notify",
     "h_update_scheduled", "h_update_failed"}

\* The awaits of handle_maintenance_request that follow the write of PROCESSING
\* and precede the handler.
PipelinePcs == {"h_classify", "h_cost", "h_book", "h_notify", "h_update_scheduled"}

IsHandle(s) == op[s] \in {"handle", "process"}

\* Coroutine s returns from handle_maintenance_request in this step.
HandleReturns(s) == pc[s] \in HandlePcs /\ pc'[s] = "done"

Rank(status) ==
    CASE status = ST_NEW -> 0
      [] status = PROCESSING -> 1
      [] status = SCHEDULED -> 2
      [] status = COMPLETED -> 3
      [] status = FAILED -> 4

\* A status stays, moves forward along the pipeline, or becomes FAILED.
MovesForward(a, b) == a = b \/ (a # FAILED /\ Rank(a) < Rank(b))

\* C1: whatever handle_maintenance_request, complete_request and
\* cancel_request calls are made, a request's status, in the store and in its
\* object, only moves forward along NEW, PROCESSING, SCHEDULED, COMPLETED or
\* into FAILED.
C1_StatusMovesForward ==
    [][/\ \A i \in Ids : MovesForward(store[i].status, store'[i].status)
       /\ \A o \in Objs : obj[o].alloc =>
                MovesForward(obj[o].status, obj'[o].status)]_vars

\* C2: a handle_maintenance_request call made while the request's stored
\* status is not NEW returns a rejection at once and changes nothing, and no
\* step of such a call writes the request's row.
C2_ProcessOnNonNewRejected ==
    [][\A s \in Slots :
        /\ (/\ pc[s] \in {"idle", "done"}
            /\ pc'[s] = "h_update_processing"
            /\ store[rid'[s]].status # ST_NEW)
           => FALSE
        /\ (/\ IsHandle(s)
            /\ seen[s] \notin {"none", ST_NEW}
            /\ pc'[s] # pc[s])
           => store'[rid[s]] = store[rid[s]]]_vars

\* C3: of two handle_maintenance_request calls made on the same request id
\* while its stored status was NEW, at most one gets past the write of
\* PROCESSING into the pipeline.
C3_OneProcessingTransition ==
    \A s, t \in Slots :
        (/\ s # t
         /\ IsHandle(s) /\ IsHandle(t)
         /\ rid[s] = rid[t]
         /\ seen[s] = ST_NEW /\ seen[t] = ST_NEW)
        => ~(pc[s] \in PipelinePcs /\ pc[t] \in PipelinePcs)

\* C4: a stored row whose status is NEW or PROCESSING has no assigned
\* contractor and no scheduled time.
C4_NoPartialWrite ==
    \A i \in Ids :
        store[i].status \in {ST_NEW, PROCESSING} =>
            /\ store[i].assigned_contractor_id = NULL
            /\ store[i].scheduled_time = NULL

\* C5: no handle_maintenance_request run ends leaving the stored status of its
\* request PROCESSING.
C5_NoRunEndsInProcessing ==
    [][\A s \in Slots :
        HandleReturns(s) => store'[rid[s]].status # PROCESSING]_vars

\* C6: when handle_maintenance_request returns success, the stored category
\* and priority are members of their closed sets, and the stored contractor and
\* scheduled time are not null.
C6_SuccessHasValidFields ==
    [][\A s \in Slots :
        (HandleReturns(s) /\ ret'[s] = "success") =>
            /\ store'[rid[s]].category \in {Some(c) : c \in ISSUE_CATEGORIES}
            /\ store'[rid[s]].priority \in {Some(p) : p \in PRIORITY_LEVELS}
            /\ store'[rid[s]].assigned_contractor_id # NULL
            /\ store'[rid[s]].scheduled_time # NULL]_vars

\* C7: a run whose classification step failed ends with the stored status
\* FAILED and a failure envelope, and with neither a category nor a contractor
\* on the row or on the object.
C7_ClassificationFailureEndsFailed ==
    [][\A s \in Slots :
        (HandleReturns(s) /\ err[s] = ErrClassify) =>
            /\ ret'[s] = "failure"
            /\ store'[rid[s]].status = FAILED
            /\ store'[rid[s]].category = NULL
            /\ store'[rid[s]].assigned_contractor_id = NULL
            /\ obj'[robj[s]].status = FAILED
            /\ obj'[robj[s]].assigned_contractor = NULL]_vars

\* C8: a run whose booking step matched no contractor ends with the status
\* FAILED and with neither a contractor nor a scheduled time, on the row and on
\* the object.
C8_NoContractorEndsFailed ==
    [][\A s \in Slots :
        (HandleReturns(s) /\ pc[s] = "h_update_scheduled" /\ res[s].contractors = <<>>) =>
            /\ store'[rid[s]].status = FAILED
            /\ store'[rid[s]].assigned_contractor_id = NULL
            /\ store'[rid[s]].scheduled_time = NULL
            /\ obj'[robj[s]].status = FAILED
            /\ obj'[robj[s]].assigned_contractor = NULL
            /\ obj'[robj[s]].scheduled_time = NULL]_vars

\* C9: a failure of the cost-estimation step does not fail the run: the run
\* goes on to the booking step.
C9_CostFailureNotFatal ==
    [][\A s \in Slots :
        (pc[s] = "h_cost" /\ pc'[s] # "h_cost") =>
            /\ pc'[s] = "h_book"
            /\ obj'[robj[s]].status # FAILED]_vars

\* C10: a failure of the notification step does not fail the run: the run
\* goes on to the write of SCHEDULED.
C10_NotifyFailureNotFatal ==
    [][\A s \in Slots :
        (pc[s] = "h_notify" /\ pc'[s] # "h_notify") =>
            /\ pc'[s] = "h_update_scheduled"
            /\ obj'[robj[s]].status = SCHEDULED]_vars

CompletePcs == {"c_fetch", "c_update_completed", "c_update_failed"}

\* Coroutine s takes a step of complete_request.
CompleteStep(s) == op[s] = "complete" /\ pc[s] \in CompletePcs /\ pc'[s] # pc[s]

\* C11: no step of a complete_request call made while the stored status was
\* not SCHEDULED writes the request's row, and the call returns a failure.
C11_CompleteOnNonScheduledRejected ==
    [][\A s \in Slots :
        (CompleteStep(s) /\ seen[s] # SCHEDULED) =>
            /\ store'[rid[s]] = store[rid[s]]
            /\ pc'[s] = "done" => ret'[s] = "failure"]_vars

\* Coroutine s returns from complete_request in this step.
CompleteReturns(s) == CompleteStep(s) /\ pc'[s] = "done"

\* C12: a complete_request call made on a SCHEDULED row ends with the row
\* COMPLETED, its completion details set, and a success envelope, or with the
\* row FAILED, its completion details untouched, and a failure envelope.
C12_CompleteEndsCompletedOrFailed ==
    [][\A s \in Slots :
        (CompleteReturns(s) /\ seen[s] = SCHEDULED) =>
            \/ /\ ret'[s] = "success"
               /\ store'[rid[s]].status = COMPLETED
               /\ store'[rid[s]].completion_details # NULL
            \/ /\ ret'[s] = "failure"
               /\ store'[rid[s]].status = FAILED
               /\ store'[rid[s]].completion_details = store[rid[s]].completion_details]_vars

\* A COMPLETED row carries completion details: the status and the details
\* arrive in one write.
CompletedHasDetails ==
    \A i \in Ids : store[i].status = COMPLETED => store[i].completion_details # NULL

\* This step is a call of cancel_request(id) / get_request_status(id).
CancelStep(id) ==
    last'.n = calls + 1 /\ last'.op = "cancel" /\ last'.id = id

StatusStep(id) ==
    last'.n = calls + 1 /\ last'.op = "status" /\ last'.id = id

\* C13: cancel_request on a request whose status, as cancel_request reads it
\* from the active request, is SCHEDULED or COMPLETED returns success false and
\* changes nothing: no request object, no row, no entry of active_requests.
C13_CancelScheduledRejected ==
    [][\A id \in Ids :
        (/\ CancelStep(id)
         /\ active[id] # 0
         /\ obj[active[id]].status \in {SCHEDULED, COMPLETED}) =>
            /\ ~last'.success
            /\ last'.error = ErrCannotCancel
            /\ obj' = obj
            /\ store' = store
            /\ active' = active]_vars

\* cancel_request has refused a request that is SCHEDULED.
C13_Witness ==
    /\ last.op = "cancel"
    /\ last.error = ErrCannotCancel
    /\ active[last.id] # 0
    /\ obj[active[last.id]].status = SCHEDULED

\* C14: cancel_request on an active request returns success exactly when the
\* request's status is NEW or PROCESSING; the request then becomes FAILED and
\* carries more than the status a failed pipeline run leaves (a reason); a
\* cancel_request that returns a failure, as on a FAILED request, changes no
\* request.
C14_CancelOnlyNewOrProcessing ==
    [][\A id \in Ids :
        (CancelStep(id) /\ active[id] # 0) =>
            LET o == active[id] IN
            /\ last'.success <=> obj[o].status \in {ST_NEW, PROCESSING}
            /\ obj[o].status \in {ST_NEW, PROCESSING} =>
                    /\ obj'[o].status = FAILED
                    /\ obj'[o] # [obj[o] EXCEPT !.status = FAILED]
            /\ ~last'.success => obj' = obj]_vars

\* cancel_request has set the request of coroutine s to FAILED while s is
\* inside its pipeline run.
CancelledInFlight(s) ==
    /\ IsHandle(s)
    /\ pc[s] \in PipelinePcs
    /\ last.op = "cancel" /\ last.id = rid[s] /\ last.error = ErrCancel
    /\ active[rid[s]] = robj[s]
    /\ obj[robj[s]].status = FAILED

\* C15: no step of a pipeline run whose request cancel_request has set to
\* FAILED takes the request out of FAILED or writes SCHEDULED to its row.
C15_RunKeepsCancelledFailed ==
    [][\A s \in Slots :
        (CancelledInFlight(s) /\ pc'[s] # pc[s]) =>
            /\ obj'[robj[s]].status = FAILED
            /\ ~(store'[rid[s]] # store[rid[s]] /\ store'[rid[s]].status = SCHEDULED)]_vars

Terminal == {COMPLETED, FAILED}

\* Coroutine s starts a call in this step.
CallStarts(s) == pc[s] \in {"idle", "done"} /\ pc'[s] \notin {"idle", "done"}

\* C16: a call made when the request's status was COMPLETED or FAILED changes
\* neither the status, category, priority or contractor of the row (whatever
\* step of the call) nor the status, priority or contractor of the request
\* object it is made on.
C16_TerminalIsImmutable ==
    [][\A s \in Slots :
        /\ (pc[s] \in HandlePcs \cup CompletePcs /\ pc'[s] # pc[s] /\ seen[s] \in Terminal) =>
                /\ store'[rid[s]].status = store[rid[s]].status
                /\ store'[rid[s]].category = store[rid[s]].category
                /\ store'[rid[s]].priority = store[rid[s]].priority
                /\ store'[rid[s]].assigned_contractor_id = store[rid[s]].assigned_contractor_id
        /\ (CallStarts(s) /\ robj'[s] # 0 /\ obj[robj'[s]].alloc
                /\ obj[robj'[s]].status \in Terminal) =>
                obj'[robj'[s]] = obj[robj'[s]]]_vars

\* C17: no operation lets an exception out to its caller: an exception that
\* leaves handle_maintenance_request or complete_request is turned into a
\* failure envelope by the operation that called it, and cancel_request and
\* get_request_status return envelopes.
C17_NeverRaises ==
    /\ \A s \in Slots : ret[s] = "raised" => outer[s] = "failure"
    /\ last.op # "none" => (last.success \/ last.error # "")

\* No call on request id is in flight.
Quiet(id) == \A s \in Slots : pc[s] \in {"idle", "done"} \/ rid[s] # id

\* C18: whenever no operation on a request is in flight, the status of its
\* object in active_requests equals the status of its row.
C18_MemoryEqualsStore ==
    \A id \in Ids :
        (active[id] # 0 /\ Quiet(id)) => obj[active[id]].status = store[id].status

DescriptionMinLength == 10

WellFormedDescription(d) == Len(d) >= DescriptionMinLength

WellFormedEmail(e) == \E i \in 2..(Len(e) - 1) : e[i] = "@"

\* C20: no request object exists, and none is in active_requests, whose
\* description is shorter than the minimum length or whose contact e-mail is
\* not an address: malformed data creates no request.
C20_MalformedCreatesNoRequest ==
    \A o \in Objs :
        obj[o].alloc =>
            /\ WellFormedDescription(obj[o].description)
            /\ WellFormedEmail(obj[o].contact_email)

\* C21: no two request objects carry the same id, and a process_request call
\* never replaces an entry of active_requests.
C21_UniqueIds ==
    [][/\ \A o, p \in Objs :
            (o # p /\ obj'[o].alloc /\ obj'[p].alloc) => obj'[o].id # obj'[p].id
       /\ \A id \in Ids : active[id] # 0 => active'[id] = active[id]]_vars

\* C22: when a process_request call that carries a priority override ends
\* with a successful run, the priority of the row and of the request object
\* is the override.
C22_OverrideTakesPrecedence ==
    [][\A s \in Slots :
        (/\ HandleReturns(s) /\ op[s] = "process" /\ ret'[s] = "success"
         /\ priority_override[s] # NULL) =>
            /\ store'[rid[s]].priority = priority_override[s]
            /\ obj'[robj[s]].priority = priority_override[s]]_vars

C24_DuplicateInsertDistinguished ==
    [][dbresult'.cause = "constraint" =>
        /\ properties' = properties
        /\ dbresult'.raised # NULL
        /\ dbresult'.raised # Some(InsertRaises("transport"))]_vars

\* The awaits at which a run is suspended in a tool call.
ToolPcs == {"h_classify", "h_cost", "h_book", "h_notify"}

\* C25: a get_request_status call, with the get_agent_status call it makes,
\* changes no row, no request object and no entry of active_requests, moves
\* no run and invokes no tool; and it can be made and returns in every state,
\* runs suspended in a tool call or not.
C25_StatusReadOnlyNonBlocking ==
    [][/\ \A id \in Ids :
            StatusStep(id) =>
                UNCHANGED <<store, obj, active, pc, res, ret, invocation>>
       /\ \A id \in Ids :
            calls < MaxCalls => ENABLED GetRequestStatus(id)]_vars

\* get_request_status has returned for a request whose run is suspended in a
\* tool call.
C25_Witness ==
    /\ last.op = "status"
    /\ last.n = calls
    /\ \E s \in Slots : pc[s] \in ToolPcs /\ rid[s] = last.id /\ active[last.id] = robj[s]

\* C26: whenever a run of handle_maintenance_request is suspended in a tool
\* call, the persisted status of its request is PROCESSING.
C26_ProcessingWhileToolInFlight ==
    \A s \in Slots :
        (IsHandle(s) /\ pc[s] \in ToolPcs) => store[rid[s]].status = PROCESSING

\* C29: process_request returns success only when the request object it
\* reports on is SCHEDULED; when its run returned the failure envelope and the
\* object is FAILED, process_request returns failure.
C29_SuccessOnlyWhenScheduled ==
    [][\A s \in Slots :
        (HandleReturns(s) /\ op[s] = "process") =>
            /\ outer'[s] = "success" => obj'[robj[s]].status = SCHEDULED
            /\ ret'[s] = "failure" => outer'[s] = "failure"]_vars

\* The place of a tool in the order classification, cost estimation,
\* contractor booking, notification.
StepRank(tool) ==
    CASE tool = "issue_classification" -> 1
      [] tool = "cost_estimation" -> 2
      [] tool = "contractor_booking" -> 3
      [] tool = "email_notification" -> 4

\* C27: the tools of one kickoff run in the order classification, cost
\* estimation, contractor booking, notification, one at a time.
C27_StepsInOrder ==
    \A i, j \in 1..Len(kickoff.used) :
        i < j => StepRank(kickoff.used[i]) < StepRank(kickoff.used[j])

\* C28: the complexity multiplier of every estimate lies in [0.5, 2.0], and
\* its three amounts satisfy 0 < low_end <= typical <= high_end.
C28_EstimateInRange ==
    estimation.asked =>
        /\ ComplexityScale \div 2 <= estimation.complexity
        /\ estimation.complexity <= 2 * ComplexityScale
        /\ 0 < estimation.low_end
        /\ estimation.low_end <= estimation.typical
        /\ estimation.typical <= estimation.high_end

\* An estimate for a category outside the table whose description carries
\* the four raising words, the product 3.822 capped to 2.0.
C28_Witness ==
    /\ estimation.asked
    /\ estimation.category = "roofing"
    /\ estimation.words = {"emergency", "urgent", "multiple", "extensive"}
    /\ estimation.complexity = 2 * ComplexityScale
    /\ estimation.low_end = 40000

\* The calls that returned True at a time u with from <= u < from + TimeWindow.
AdmittedIn(history, from) ==
    {i \in DOMAIN history : from <= history[i] /\ history[i] < from + TimeWindow}

\* This step is a check_rate_limit call.
CheckStep == rate'.n = rate.n + 1

\* C30: in every window of time_window seconds at most max_requests calls of
\* check_rate_limit have returned True; a call that returns False adds no
\* time to request_times; and a call is admitted when fewer than max_requests
\* of the admitted calls are less than time_window old.
C30_RateLimitHolds ==
    [][/\ \A from \in 0..MaxClock :
            Cardinality(AdmittedIn(admitted', from)) <= MaxRequests
       /\ (CheckStep /\ ~rate'.allowed) =>
            /\ Len(request_times') <= Len(request_times)
            /\ \A i \in DOMAIN request_times' : request_times'[i] # now \/
                    \E j \in DOMAIN request_times : request_times[j] = now
            /\ admitted' = admitted
       /\ (CheckStep /\ Cardinality(AdmittedIn(admitted, now - TimeWindow + 1)) < MaxRequests) =>
            rate'.allowed]_vars

\* A call has been admitted after an earlier one was refused: more calls than
\* max_requests have returned True, fewer than were made.
C30_Witness ==
    /\ rate.allowed
    /\ Len(admitted) = MaxRequests + 1
    /\ rate.n > Len(admitted)

=============================================================================
